---- MODULE Spec2Model ----
(***************************************************************************)
(* Era derivation of synthea_to_omop: ConditionEraTransformer,             *)
(* DrugEraTransformer and DoseEraTransformer (_build_eras and              *)
(* _generate_era_id), the era steps of main.py around them (clear, source  *)
(* query, loader), run_pipeline, and the UUID conversions.  Dates are day  *)
(* numbers.                                                                *)
(*   Spec, SpecDose  one call of _build_eras on one source frame: the      *)
(*                   groupby, one step per group (sort, null end dates,    *)
(*                   record loop, last era) and the id generation          *)
(*   SpecBuild       the call up to the end of the group loop              *)
(*   SpecTwice       the same call made twice over one source snapshot     *)
(*   SpecPermuted    the call made again on the rows in another order      *)
(*   SpecHash        one call of an id function on one md5 digest          *)
(*   SpecStep        one _process_..._era_table step over a source table   *)
(*   SpecLoad        one call of an era loader, batch by batch             *)
(*   SpecRun         run_pipeline over a list of tables                    *)
(***************************************************************************)
EXTENDS Integers, Sequences, FiniteSets, TLC

\* ---------------------------------------------------------------- bounds
\* rows of a source frame (Spec), of a dose frame with two dose values (SpecDose)
MaxRows == 3
MaxDoseRows == 2
\* day numbers run over 0..MaxDate, gap_days over 0..MaxGap
MaxDate == 2
MaxGap == 1

\* ------------------------------------------------------------ value sets
\* pd.NaT / None in a date column (pd.notna is false of it)
NaT == -1

Dates == 0..MaxDate
Persons == {1}
Concepts == {100}
DoseValues == {10, 20}
\* leading eight bytes of an md5 digest (no code reads further) that the
\* era keys are hashed to: two keys collide when they get the same bytes
DigestValues ==
    {<<0, 0, 0, 0, 0, 0, 0, 0>>,
     <<0, 0, 0, 1, 0, 0, 0, 0>>}
HashModulus == 2147483647

\* _build_eras: the call's locals and its result
VARIABLES variant, gap_days, df, pc, keys, eras, hash_ids, era_ids
\* hashlib.md5 as far as it was evaluated: pairs <<key, digest>>
VARIABLES md5
\* a second transform() over the same snapshot: run number, first result
VARIABLES run, first
\* one call of an id function: the md5 digest of its argument, its result
VARIABLES digest, id_out
\* run_pipeline: the list of tables, the index of the next one, the tables
\* handled so far with what their step returned, the value returned
VARIABLES tables_to_process, position, log, pipeline_result
\* one era step of main.py: its position, the source table and the ingredient
\* ancestors of its drug concepts, the query that gave df, the era table,
\* the value returned, the calls of the loader, len(stats['errors'])
VARIABLES step, source, ancestors, query_path, era_table, success,
          loader_calls, errors
\* one call of load_condition_eras / load_drug_eras: the frame given, the
\* batch_size (argument, then as reassigned), num_batches, start, the
\* batches inserted so far (each a list of rows), the value returned;
\* load_batch is batch_size after its reassignment
VARIABLES load_pc, load_df, load_batch_size, load_batch, load_num_batches,
          load_start, load_chunks, load_result

builder == <<variant, gap_days, df, pc, keys, eras, hash_ids, era_ids>>
twice == <<run, first>>
hashing == <<digest, id_out>>
pipeline == <<tables_to_process, position, log, pipeline_result>>
stage == <<step, source, ancestors, query_path, era_table, success,
           loader_calls, errors>>
loading == <<load_pc, load_df, load_batch_size, load_batch,
             load_num_batches, load_start, load_chunks, load_result>>
outside == <<twice, hashing, pipeline, stage, loading>>
vars == <<builder, md5, outside>>

\* ------------------------------------------------------------- helpers
\* a frame argument: None, or a DataFrame of the listed rows
None == [is_none |-> TRUE, rows |-> <<>>]
DataFrame(rows) == [is_none |-> FALSE, rows |-> rows]

notna(x) == x # NaT

Max(a, b) == IF a >= b THEN a ELSE b

\* lexicographic order on tuples of integers of equal length
RECURSIVE TupleLess(_, _)
TupleLess(a, b) ==
    IF a = <<>> \/ b = <<>> THEN FALSE
    ELSE IF Head(a) # Head(b) THEN Head(a) < Head(b)
    ELSE TupleLess(Tail(a), Tail(b))

\* rows returned by _get_condition_occurrences
ConditionRows ==
    [person_id : Persons, concept_id : Concepts,
     start_date : Dates, end_date : Dates \cup {NaT}]

\* rows returned by _get_drug_exposures
DrugRows ==
    [person_id : Persons, concept_id : Concepts,
     start_date : Dates, end_date : Dates \cup {NaT}]

\* rows returned by _get_drug_exposures_with_dose, quantities drawn from D
DoseRows(D) ==
    [person_id : Persons, concept_id : Concepts,
     dose_value : D, unit_concept_id : {0},
     start_date : Dates, end_date : Dates \cup {NaT}]

\* the ORDER BY columns of the three source queries; rows equal on them are
\* listed by end_date (sort_values reorders such ties anyway, see SortValues)
ConditionOrder(r) == <<r.person_id, r.concept_id, r.start_date, r.end_date>>
DrugOrder(r) == <<r.person_id, r.concept_id, r.start_date, r.end_date>>
DoseOrder(r) ==
    <<r.person_id, r.concept_id, r.dose_value, r.start_date, r.end_date>>

QueryOrder(v, r) ==
    CASE v = "condition" -> ConditionOrder(r)
      [] v = "drug" -> DrugOrder(r)
      [] OTHER -> DoseOrder(r)

\* the rows of R as the query would list them
RECURSIVE InQueryOrder(_, _)
InQueryOrder(v, R) ==
    IF R = {} THEN <<>>
    ELSE LET m == CHOOSE x \in R :
                    \A y \in R : y = x \/ TupleLess(QueryOrder(v, x),
                                                    QueryOrder(v, y))
         IN <<m>> \o InQueryOrder(v, R \ {m})

\* ascending sequences of n positions of a list of length len
RECURSIVE Ascending(_, _)
Ascending(len, n) ==
    IF n = 0 THEN {<<>>}
    ELSE UNION {{Append(s, j) :
                    j \in (IF s = <<>> THEN 1 ELSE s[Len(s)])..len} :
                s \in Ascending(len, n - 1)}

\* frames of at most max rows taken from the list rows, in list order
FramesOver(rows, max) ==
    UNION {{[p \in 1..n |-> rows[s[p]]] : s \in Ascending(Len(rows), n)} :
           n \in 0..max}

\* frames of at most max rows of R for variant v, in query order
Frames(v, R, max) == FramesOver(InQueryOrder(v, R), max)

\* the frames of Spec: one (person, concept[, dose]) group
SourceFrames(v) ==
    Frames(v, CASE v = "condition" -> ConditionRows
                [] v = "drug" -> DrugRows
                [] OTHER -> DoseRows({10}), MaxRows)

\* the frames of SpecDose: one person and drug, two dose values
DoseFrames == Frames("dose", DoseRows(DoseValues), MaxDoseRows)

\* variant of DoseGroupKey: the dose is truncated to whole hundreds
DoseGroupKeyCoarse(r) ==
    <<r.person_id, r.concept_id, r.dose_value \div 100, r.unit_concept_id>>

\* df.groupby([...]) key of a row, per variant
ConditionGroupKey(r) == <<r.person_id, r.concept_id>>
DrugGroupKey(r) == <<r.person_id, r.concept_id>>
DoseGroupKey(r) ==
    <<r.person_id, r.concept_id, r.dose_value, r.unit_concept_id>>

GroupKey(r) ==
    CASE variant = "condition" -> ConditionGroupKey(r)
      [] variant = "drug" -> DrugGroupKey(r)
      [] OTHER -> DoseGroupKey(r)

\* groupby iterates its groups in ascending key order
RECURSIVE SortKeys(_)
SortKeys(S) ==
    IF S = {} THEN <<>>
    ELSE LET m == CHOOSE k \in S : \A j \in S : j = k \/ TupleLess(k, j)
         IN <<m>> \o SortKeys(S \ {m})

\* positions of df that belong to group key k
GroupIndex(k) == {n \in 1..Len(df) : GroupKey(df[n]) = k}

\* group.sort_values(start).reset_index(drop=True): every arrangement of the
\* group's rows that is ascending in start_date (the default sort kind is not
\* stable, so rows with equal start_date may come out in any order).  Each
\* row keeps, as `idx`, its position in df; rows equal in every column are
\* interchangeable and are listed in frame order.
RECURSIVE Arrangements(_)
Arrangements(I) ==
    IF I = {} THEN {<<>>}
    ELSE UNION {{<<[row |-> df[m], idx |-> m]>> \o s :
                    s \in Arrangements(I \ {m})} :
                m \in {x \in I :
                         \A y \in I :
                           /\ df[x].start_date <= df[y].start_date
                           /\ df[x] = df[y] => x <= y}}

\* variant of SortValues: the group's rows as the frame lists them
SortValuesFrameOrder(k) ==
    LET n == Cardinality(GroupIndex(k))
    IN {[p \in 1..n |-> [row |-> df[f[p]], idx |-> f[p]]] :
           f \in {g \in [1..n -> GroupIndex(k)] :
                     \A a, b \in 1..n : a < b => g[a] < g[b]}}

SortValues(k) == Arrangements(GroupIndex(k))

\* variant of DrugEndDate: the default is the start date
DrugEndDateSame(r) ==
    IF notna(r.end_date) THEN r.end_date ELSE r.start_date

\* variant of DrugEndDate: the default is the day before the start
DrugEndDateBefore(r) ==
    IF notna(r.end_date) THEN r.end_date ELSE r.start_date - 1

\* null end date defaults
ConditionEndDate(r) ==
    IF notna(r.end_date) THEN r.end_date ELSE r.start_date
DrugEndDate(r) ==
    IF notna(r.end_date) THEN r.end_date ELSE r.start_date + 1
DoseEndDate(r) ==
    IF notna(r.end_date) THEN r.end_date ELSE r.start_date + 1

\* gap between the running era end and the current record's start
Gap(current_start, end) ==
    IF notna(end) /\ notna(current_start) THEN current_start - end ELSE 0

\* variant of Extends: strict comparison
ExtendsStrict(gap) == gap < gap_days

\* if gap <= self.gap_days: the record extends the current era
Extends(gap) == gap <= gap_days

\* variants of ExtendEnd: the era end is never moved; the era end is
\* overwritten with the current record's end
ExtendEndKeep(end, current_end) == end
ExtendEndLast(end, current_end) ==
    IF notna(current_end) THEN current_end ELSE end

\* era_end = max(era_end, current_end) if pd.notna(current_end) else era_end
ExtendEnd(end, current_end) ==
    IF notna(current_end) THEN Max(end, current_end) ELSE end

\* variant of AddGap: negative gaps are added too
AddGapSigned(total, gap) == total + gap

\* if gap > 0: total_gap_days += gap
AddGap(total, gap) == IF gap > 0 THEN total + gap ELSE total

\* ------------------------------------------------- the three record loops
\* g is the sorted group with its end dates defaulted, n the loop index, out
\* the eras appended so far; `members` lists, in merge order, the rows of df an
\* era was built from (history kept for the properties, not an output column).
ConditionEra(k, start, end, count, mem) ==
    [person_id |-> k[1], concept_id |-> k[2],
     era_start_date |-> start, era_end_date |-> end,
     occurrence_count |-> count, members |-> mem]

\* variant of ConditionLoop: a new era does not reset occurrence_count
RECURSIVE ConditionLoopNoReset(_, _, _, _, _, _, _, _)
ConditionLoopNoReset(k, g, n, start, end, count, mem, out) ==
    IF n > Len(g)
    THEN Append(out, ConditionEra(k, start, end, count, mem))
    ELSE LET current_start == g[n].row.start_date
             current_end == g[n].row.end_date
             gap == Gap(current_start, end)
         IN IF Extends(gap)
            THEN ConditionLoopNoReset(k, g, n + 1, start,
                                      ExtendEnd(end, current_end),
                                      count + 1, Append(mem, g[n].idx), out)
            ELSE ConditionLoopNoReset(k, g, n + 1, current_start, current_end,
                                      count + 1, <<g[n].idx>>,
                                      Append(out, ConditionEra(k, start, end, count, mem)))

RECURSIVE ConditionLoop(_, _, _, _, _, _, _, _)
ConditionLoop(k, g, n, start, end, count, mem, out) ==
    IF n > Len(g)
    THEN Append(out, ConditionEra(k, start, end, count, mem))
    ELSE LET current_start == g[n].row.start_date
             current_end == g[n].row.end_date
             gap == Gap(current_start, end)
         IN IF Extends(gap)
            THEN ConditionLoop(k, g, n + 1, start, ExtendEnd(end, current_end),
                               count + 1, Append(mem, g[n].idx), out)
            ELSE ConditionLoop(k, g, n + 1, current_start, current_end,
                               1, <<g[n].idx>>,
                               Append(out, ConditionEra(k, start, end, count, mem)))

DrugEra(k, start, end, count, total, mem) ==
    [person_id |-> k[1], concept_id |-> k[2],
     era_start_date |-> start, era_end_date |-> end,
     occurrence_count |-> count, gap_days |-> total, members |-> mem]

RECURSIVE DrugLoop(_, _, _, _, _, _, _, _, _)
DrugLoop(k, g, n, start, end, count, total, mem, out) ==
    IF n > Len(g)
    THEN Append(out, DrugEra(k, start, end, count, total, mem))
    ELSE LET current_start == g[n].row.start_date
             current_end == g[n].row.end_date
             gap == Gap(current_start, end)
         IN IF Extends(gap)
            THEN DrugLoop(k, g, n + 1, start, ExtendEnd(end, current_end),
                          count + 1, AddGap(total, gap),
                          Append(mem, g[n].idx), out)
            ELSE DrugLoop(k, g, n + 1, current_start, current_end,
                          1, 0, <<g[n].idx>>,
                          Append(out, DrugEra(k, start, end, count, total, mem)))

DoseEra(k, start, end, mem) ==
    [person_id |-> k[1], concept_id |-> k[2],
     unit_concept_id |-> k[4], dose_value |-> k[3],
     era_start_date |-> start, era_end_date |-> end, members |-> mem]

RECURSIVE DoseLoop(_, _, _, _, _, _, _)
DoseLoop(k, g, n, start, end, mem, out) ==
    IF n > Len(g)
    THEN Append(out, DoseEra(k, start, end, mem))
    ELSE LET current_start == g[n].row.start_date
             current_end == g[n].row.end_date
             gap == Gap(current_start, end)
         IN IF Extends(gap)
            THEN DoseLoop(k, g, n + 1, start, ExtendEnd(end, current_end),
                          Append(mem, g[n].idx), out)
            ELSE DoseLoop(k, g, n + 1, current_start, current_end,
                          <<g[n].idx>>,
                          Append(out, DoseEra(k, start, end, mem)))

\* ------------------------------------------------------------- hashing
\* Python integers are unbounded; here the residue modulo 2^31 - 1 of the
\* big-endian reading is carried byte by byte, within 32 bits, by
\* 2^31 = 1 (mod 2^31 - 1): (a + b) % m for a, b in 0..m - 1
AddMod(a, b) ==
    IF a >= HashModulus - b THEN a - (HashModulus - b) ELSE a + b

\* (r * 256) % m for r in 0..m - 1, r = q * 2^23 + s
ShiftByte(r) == ((r \div 8388608) + (r % 8388608) * 256) % HashModulus

\* int.from_bytes(bytes, byteorder='big') % 2147483647, r the residue so far
RECURSIVE FromBytesMod(_, _)
FromBytesMod(bytes, r) ==
    IF bytes = <<>> THEN r
    ELSE FromBytesMod(Tail(bytes), AddMod(ShiftByte(r), Head(bytes)))

\* variant of ConditionGenerateEraId: the residue itself
ConditionGenerateEraIdFromZero(d) == FromBytesMod(SubSeq(d, 1, 4), 0)

\* hash_bytes = md5(key).digest()[:4] ([:8] for dose);
\* int.from_bytes(hash_bytes, 'big') % 2147483647 + 1
ConditionGenerateEraId(d) == FromBytesMod(SubSeq(d, 1, 4), 0) + 1
DrugGenerateEraId(d) == FromBytesMod(SubSeq(d, 1, 4), 0) + 1
DoseGenerateEraId(d) == FromBytesMod(SubSeq(d, 1, 8), 0) + 1

\* the fields that make up the hashed key string of output row n
ConditionEraKey(n) ==
    <<eras[n].person_id, eras[n].concept_id, eras[n].era_start_date>>
DrugEraKey(n) ==
    <<eras[n].person_id, eras[n].concept_id, eras[n].era_start_date>>
DoseEraKey(n) ==
    <<eras[n].person_id, eras[n].concept_id, eras[n].dose_value,
      eras[n].unit_concept_id, eras[n].era_start_date, n - 1>>

\* md5 is a function of the key string and nothing else is assumed of it:
\* every assignment of digests that gives equal keys equal digests and
\* a key hashed before the digest it had
Digests(ks) ==
    {h \in [1..Len(ks) -> DigestValues] :
        /\ \A a, b \in 1..Len(ks) : ks[a] = ks[b] => h[a] = h[b]
        /\ \A a \in 1..Len(ks) : \A kd \in md5 : kd[1] = ks[a] => h[a] = kd[2]}

\* the digest table after hashing the keys ks to the digests h
Hashed(ks, h) == md5 \cup {<<ks[a], h[a]>> : a \in 1..Len(ks)}

\* Series.duplicated().any()
Duplicated(ids) ==
    \E a, b \in 1..Len(ids) : a # b /\ ids[a] = ids[b]

\* variant of SequentialIds: range(len(eras_df))
SequentialIdsFromZero(n) == [p \in 1..n |-> p - 1]

\* range(1, len(eras_df) + 1)
SequentialIds(n) == [p \in 1..n |-> p]

\* variant of DoseIds: no uniqueness check
DoseIdsUnchecked(hashed) == hashed

\* the dose era id column: hash ids, replaced as a whole if any is repeated
DoseIds(hashed) ==
    IF Duplicated(hashed) THEN SequentialIds(Len(hashed)) ELSE hashed

\* variant of ConditionIds: the uniqueness check of the dose builder
ConditionIdsChecked(hashed) == DoseIds(hashed)

\* the condition and drug era id columns: the hash ids as computed
ConditionIds(hashed) == hashed
DrugIds(hashed) == hashed

\* ---------------------------------------------------------------- Init
\* state at entry of _build_eras
Entry ==
    /\ pc = "groupby"
    /\ keys = <<>>
    /\ eras = <<>>
    /\ hash_ids = <<>>
    /\ era_ids = <<>>

\* nothing hashed yet, a single call of transform()
Single ==
    /\ md5 = {}
    /\ run = 1
    /\ first = <<>>

\* no id function called on its own
NoConversion ==
    /\ digest = <<>>
    /\ id_out = <<>>

\* run_pipeline not entered
NoPipeline ==
    /\ tables_to_process = <<>>
    /\ position = 0
    /\ log = <<>>
    /\ pipeline_result = "none"

\* no era step entered
NoStep ==
    /\ step = "none"
    /\ source = <<>>
    /\ ancestors = <<>>
    /\ query_path = "none"
    /\ era_table = <<>>
    /\ success = "none"
    /\ loader_calls = 0
    /\ errors = 0

\* no loader called on its own
NoLoad ==
    /\ load_pc = "none"
    /\ load_df = None
    /\ load_batch_size = 0
    /\ load_batch = 0
    /\ load_num_batches = 0
    /\ load_start = 0
    /\ load_chunks = <<>>
    /\ load_result = "none"

\* the builder alone
BuilderOnly == Single /\ NoConversion /\ NoPipeline /\ NoStep /\ NoLoad

Init ==
    /\ variant \in {"condition", "drug", "dose"}
    /\ df \in SourceFrames(variant)
    /\ gap_days \in 0..MaxGap
    /\ Entry
    /\ BuilderOnly

InitDose ==
    /\ variant = "dose"
    /\ df \in DoseFrames
    /\ gap_days \in 0..MaxGap
    /\ Entry
    /\ BuilderOnly

\* ------------------------------------------------- condition era builder
\* grouped = conditions_df.groupby(['person_id', 'condition_concept_id'])
GroupByCondition ==
    /\ variant = "condition"
    /\ pc = "groupby"
    /\ keys' = SortKeys({ConditionGroupKey(df[n]) : n \in 1..Len(df)})
    /\ pc' = "group"
    /\ UNCHANGED <<variant, gap_days, df, eras, hash_ids, era_ids>>
    /\ UNCHANGED <<md5, outside>>

\* one pass of the group loop: sort, default the null end dates, seed the
\* era from the first record, run the record loop, append the last era
BuildGroupCondition ==
    /\ variant = "condition"
    /\ pc = "group"
    /\ keys # <<>>
    /\ \E s \in SortValues(Head(keys)) :
         LET g == [p \in 1..Len(s) |->
                     [s[p] EXCEPT !.row.end_date = ConditionEndDate(s[p].row)]]
         IN eras' = ConditionLoop(Head(keys), g, 2, g[1].row.start_date,
                                  g[1].row.end_date, 1, <<g[1].idx>>, eras)
    /\ keys' = Tail(keys)
    /\ UNCHANGED <<variant, gap_days, df, pc, hash_ids, era_ids>>
    /\ UNCHANGED <<md5, outside>>

\* eras_df = pd.DataFrame(eras); ids only if not eras_df.empty
GenerateIdsCondition ==
    /\ variant = "condition"
    /\ pc = "group"
    /\ keys = <<>>
    /\ IF eras = <<>>
       THEN UNCHANGED <<hash_ids, era_ids, md5>>
       ELSE LET ks == [n \in 1..Len(eras) |-> ConditionEraKey(n)]
            IN \E h \in Digests(ks) :
                 /\ hash_ids' = [n \in 1..Len(eras) |-> ConditionGenerateEraId(h[n])]
                 /\ era_ids' = ConditionIds(hash_ids')
                 /\ md5' = Hashed(ks, h)
    /\ pc' = "done"
    /\ UNCHANGED <<variant, gap_days, df, keys, eras>>
    /\ UNCHANGED outside

\* ------------------------------------------------------ drug era builder
\* grouped = exposures_df.groupby(['person_id', 'drug_concept_id'])
GroupByDrug ==
    /\ variant = "drug"
    /\ pc = "groupby"
    /\ keys' = SortKeys({DrugGroupKey(df[n]) : n \in 1..Len(df)})
    /\ pc' = "group"
    /\ UNCHANGED <<variant, gap_days, df, eras, hash_ids, era_ids>>
    /\ UNCHANGED <<md5, outside>>

BuildGroupDrug ==
    /\ variant = "drug"
    /\ pc = "group"
    /\ keys # <<>>
    /\ \E s \in SortValues(Head(keys)) :
         LET g == [p \in 1..Len(s) |->
                     [s[p] EXCEPT !.row.end_date = DrugEndDate(s[p].row)]]
         IN eras' = DrugLoop(Head(keys), g, 2, g[1].row.start_date,
                             g[1].row.end_date, 1, 0, <<g[1].idx>>, eras)
    /\ keys' = Tail(keys)
    /\ UNCHANGED <<variant, gap_days, df, pc, hash_ids, era_ids>>
    /\ UNCHANGED <<md5, outside>>

GenerateIdsDrug ==
    /\ variant = "drug"
    /\ pc = "group"
    /\ keys = <<>>
    /\ IF eras = <<>>
       THEN UNCHANGED <<hash_ids, era_ids, md5>>
       ELSE LET ks == [n \in 1..Len(eras) |-> DrugEraKey(n)]
            IN \E h \in Digests(ks) :
                 /\ hash_ids' = [n \in 1..Len(eras) |-> DrugGenerateEraId(h[n])]
                 /\ era_ids' = DrugIds(hash_ids')
                 /\ md5' = Hashed(ks, h)
    /\ pc' = "done"
    /\ UNCHANGED <<variant, gap_days, df, keys, eras>>
    /\ UNCHANGED outside

\* ------------------------------------------------------ dose era builder
\* unit_concept_id is the literal 0 of the query, so fillna(0) changes nothing;
\* grouped = exposures_df.groupby(['person_id', 'drug_concept_id',
\*                                 'dose_value', 'unit_concept_id'])
GroupByDose ==
    /\ variant = "dose"
    /\ pc = "groupby"
    /\ keys' = SortKeys({DoseGroupKey(df[n]) : n \in 1..Len(df)})
    /\ pc' = "group"
    /\ UNCHANGED <<variant, gap_days, df, eras, hash_ids, era_ids>>
    /\ UNCHANGED <<md5, outside>>

BuildGroupDose ==
    /\ variant = "dose"
    /\ pc = "group"
    /\ keys # <<>>
    /\ \E s \in SortValues(Head(keys)) :
         LET g == [p \in 1..Len(s) |->
                     [s[p] EXCEPT !.row.end_date = DoseEndDate(s[p].row)]]
         IN eras' = DoseLoop(Head(keys), g, 2, g[1].row.start_date,
                             g[1].row.end_date, <<g[1].idx>>, eras)
    /\ keys' = Tail(keys)
    /\ UNCHANGED <<variant, gap_days, df, pc, hash_ids, era_ids>>
    /\ UNCHANGED <<md5, outside>>

\* hash ids over the reset index, then the uniqueness check and its fallback
GenerateIdsDose ==
    /\ variant = "dose"
    /\ pc = "group"
    /\ keys = <<>>
    /\ IF eras = <<>>
       THEN UNCHANGED <<hash_ids, era_ids, md5>>
       ELSE LET ks == [n \in 1..Len(eras) |-> DoseEraKey(n)]
            IN \E h \in Digests(ks) :
                 /\ hash_ids' = [n \in 1..Len(eras) |-> DoseGenerateEraId(h[n])]
                 /\ era_ids' = DoseIds(hash_ids')
                 /\ md5' = Hashed(ks, h)
    /\ pc' = "done"
    /\ UNCHANGED <<variant, gap_days, df, keys, eras>>
    /\ UNCHANGED outside

Next ==
    \/ GroupByCondition
    \/ BuildGroupCondition
    \/ GenerateIdsCondition
    \/ GroupByDrug
    \/ BuildGroupDrug
    \/ GenerateIdsDrug
    \/ GroupByDose
    \/ BuildGroupDose
    \/ GenerateIdsDose

Spec == Init /\ [][Next]_vars

\* _build_eras up to the end of the group loop, the ids not yet assigned
NextBuild ==
    \/ GroupByCondition
    \/ BuildGroupCondition
    \/ GroupByDrug
    \/ BuildGroupDrug
    \/ GroupByDose
    \/ BuildGroupDose

SpecBuild == Init /\ [][NextBuild]_vars

NextDose ==
    \/ GroupByDose
    \/ BuildGroupDose
    \/ GenerateIdsDose

SpecDose == InitDose /\ [][NextDose]_vars

\* --------------------------------------------- transform(), called again
MaxTwiceRows == 2

\* source frames of the specification of two runs
TwiceFrames(v) ==
    Frames(v, CASE v = "condition" -> ConditionRows
                [] v = "drug" -> DrugRows
                [] OTHER -> DoseRows({10}), MaxTwiceRows)

\* the columns of output row n of the returned frame (the id last)
ConditionEraRow(n) ==
    <<eras[n].person_id, eras[n].concept_id, eras[n].era_start_date,
      eras[n].era_end_date, eras[n].occurrence_count, era_ids[n]>>
DrugEraRow(n) ==
    <<eras[n].person_id, eras[n].concept_id, eras[n].era_start_date,
      eras[n].era_end_date, eras[n].occurrence_count, eras[n].gap_days,
      era_ids[n]>>
DoseEraRow(n) ==
    <<eras[n].person_id, eras[n].concept_id, eras[n].unit_concept_id,
      eras[n].dose_value, eras[n].era_start_date, eras[n].era_end_date,
      era_ids[n]>>

\* the frame transform() returns
Returned ==
    [n \in 1..Len(eras) |->
        CASE variant = "condition" -> ConditionEraRow(n)
          [] variant = "drug" -> DrugEraRow(n)
          [] OTHER -> DoseEraRow(n)]

InitTwice ==
    /\ variant \in {"condition", "drug", "dose"}
    /\ df \in TwiceFrames(variant)
    /\ gap_days \in 0..MaxGap
    /\ Entry
    /\ BuilderOnly

\* the step runs again over the unchanged source tables: the first frame,
\* its hash ids and the records of its eras in merge order are kept for
\* comparison, _build_eras is entered afresh
Rerun ==
    /\ run = 1
    /\ pc = "done"
    /\ first' = <<Returned, hash_ids, [n \in 1..Len(eras) |-> eras[n].members]>>
    /\ run' = 2
    /\ pc' = "groupby"
    /\ keys' = <<>>
    /\ eras' = <<>>
    /\ hash_ids' = <<>>
    /\ era_ids' = <<>>
    /\ UNCHANGED <<variant, gap_days, df, md5, loading, hashing, pipeline,
                   stage>>

NextTwice ==
    \/ GroupByCondition
    \/ BuildGroupCondition
    \/ GenerateIdsCondition
    \/ GroupByDrug
    \/ BuildGroupDrug
    \/ GenerateIdsDrug
    \/ GroupByDose
    \/ BuildGroupDose
    \/ GenerateIdsDose
    \/ Rerun

SpecTwice == InitTwice /\ [][NextTwice]_vars

\* ------------------------------------- transform(), the rows in any order
\* rows of a source frame of the specification of reordered input
MaxPermutedRows == 2

\* the frames whose rows are those of frame in another (or the same) order
Reordered(frame) ==
    {[p \in 1..Len(frame) |-> frame[f[p]]] :
        f \in {g \in [1..Len(frame) -> 1..Len(frame)] :
                  \A a, b \in 1..Len(frame) : a # b => g[a] # g[b]}}

\* the condition and the drug builder, one group
InitPermuted ==
    /\ variant \in {"condition", "drug"}
    /\ df \in Frames(variant,
                      IF variant = "condition" THEN ConditionRows
                      ELSE DrugRows, MaxPermutedRows)
    /\ gap_days \in 0..MaxGap
    /\ Entry
    /\ BuilderOnly

\* _build_eras is called again on a frame that lists the same rows in any
\* order; the first result is kept for comparison
RerunPermuted ==
    /\ run = 1
    /\ pc = "done"
    /\ first' = <<Returned, hash_ids, [n \in 1..Len(eras) |-> eras[n].members]>>
    /\ run' = 2
    /\ df' \in Reordered(df)
    /\ pc' = "groupby"
    /\ keys' = <<>>
    /\ eras' = <<>>
    /\ hash_ids' = <<>>
    /\ era_ids' = <<>>
    /\ UNCHANGED <<variant, gap_days, md5, loading, hashing, pipeline, stage>>

NextPermuted ==
    \/ GroupByCondition
    \/ BuildGroupCondition
    \/ GenerateIdsCondition
    \/ GroupByDrug
    \/ BuildGroupDrug
    \/ GenerateIdsDrug
    \/ RerunPermuted

SpecPermuted == InitPermuted /\ [][NextPermuted]_vars

\* ------------------------------------------------- id functions, alone
\* byte values and trailing four bytes the digests are drawn from
ByteValues == {0, 127, 128, 254, 255}
DigestTails ==
    {<<0, 0, 0, 0>>, <<127, 255, 255, 254>>, <<128, 0, 0, 0>>,
     <<255, 255, 255, 255>>}

\* md5(...).hexdigest(): two hexadecimal digits a byte, high digit first
RECURSIVE Hexdigest(_)
Hexdigest(d) ==
    IF d = <<>> THEN <<>>
    ELSE <<Head(d) \div 16, Head(d) % 16>> \o Hexdigest(Tail(d))

\* (r * 16) % m for r in 0..m - 1, r = q * 2^27 + s
ShiftDigit(r) == ((r \div 134217728) + (r % 134217728) * 16) % HashModulus

\* int(digits, 16) % (2**31 - 1), r the residue so far
RECURSIVE FromHexMod(_, _)
FromHexMod(digits, r) ==
    IF digits = <<>> THEN r
    ELSE FromHexMod(Tail(digits), AddMod(ShiftDigit(r), Head(digits)))

\* variant of UUIDConverterPersonId: the provider algorithm
UUIDConverterPersonIdShifted(d) == FromBytesMod(SubSeq(d, 1, 4), 0) + 1

\* UUIDConverter.person_id, d = md5(str(uuid_str).encode())
UUIDConverterPersonId(d) == FromHexMod(SubSeq(Hexdigest(d), 1, 8), 0)

\* PersonTransformer._uuid_to_int
PersonTransformerUuidToInt(d) == FromHexMod(SubSeq(Hexdigest(d), 1, 8), 0)

\* UUIDConverter.provider_id
UUIDConverterProviderId(d) == FromBytesMod(SubSeq(d, 1, 4), 0) + 1

\* ProviderTransformer._uuid_to_int
ProviderTransformerUuidToInt(d) == FromBytesMod(SubSeq(d, 1, 4), 0) + 1

\* UUIDConverter.care_site_id
UUIDConverterCareSiteId(d) == FromBytesMod(SubSeq(d, 1, 4), 0) + 1

\* CareSiteTransformer._uuid_to_int
CareSiteTransformerUuidToInt(d) == FromBytesMod(SubSeq(d, 1, 4), 0) + 1

InitHash ==
    /\ digest \in {h \o t : h \in [1..4 -> ByteValues], t \in DigestTails}
    /\ id_out = <<>>
    /\ variant = "none"
    /\ df = <<>>
    /\ gap_days = 0
    /\ pc = "none"
    /\ keys = <<>>
    /\ eras = <<>>
    /\ hash_ids = <<>>
    /\ era_ids = <<>>
    /\ Single
    /\ NoPipeline
    /\ NoStep
    /\ NoLoad

\* _generate_era_id of the three era transformers on a key of this digest
GenerateConditionEraId ==
    /\ digest # <<>>
    /\ id_out = <<>>
    /\ id_out' = <<"condition_era", ConditionGenerateEraId(digest)>>
    /\ UNCHANGED <<builder, md5, loading, twice, digest, pipeline, stage>>

GenerateDrugEraId ==
    /\ digest # <<>>
    /\ id_out = <<>>
    /\ id_out' = <<"drug_era", DrugGenerateEraId(digest)>>
    /\ UNCHANGED <<builder, md5, loading, twice, digest, pipeline, stage>>

GenerateDoseEraId ==
    /\ digest # <<>>
    /\ id_out = <<>>
    /\ id_out' = <<"dose_era", DoseGenerateEraId(digest)>>
    /\ UNCHANGED <<builder, md5, loading, twice, digest, pipeline, stage>>

\* one identifier through the converter and through the table's transformer
ConvertPerson ==
    /\ digest # <<>>
    /\ id_out = <<>>
    /\ id_out' = <<"person", UUIDConverterPersonId(digest),
                PersonTransformerUuidToInt(digest)>>
    /\ UNCHANGED <<builder, md5, loading, twice, digest, pipeline, stage>>

ConvertProvider ==
    /\ digest # <<>>
    /\ id_out = <<>>
    /\ id_out' = <<"provider", UUIDConverterProviderId(digest),
                ProviderTransformerUuidToInt(digest)>>
    /\ UNCHANGED <<builder, md5, loading, twice, digest, pipeline, stage>>

ConvertCareSite ==
    /\ digest # <<>>
    /\ id_out = <<>>
    /\ id_out' = <<"care_site", UUIDConverterCareSiteId(digest),
                CareSiteTransformerUuidToInt(digest)>>
    /\ UNCHANGED <<builder, md5, loading, twice, digest, pipeline, stage>>

NextHash ==
    \/ GenerateConditionEraId
    \/ GenerateDrugEraId
    \/ GenerateDoseEraId
    \/ ConvertPerson
    \/ ConvertProvider
    \/ ConvertCareSite

SpecHash == InitHash /\ [][NextHash]_vars

\* ------------------------------------------------ the era steps of main.py
\* rows of a source table
MaxStepRows == 2
\* the gap_days of a transformer the step constructs, the step's batch_size
DefaultGapDays == 30
StepBatchSize == 500

StepDates == 0..1
\* concept ids of the source tables: 0 is the unmapped concept
ConditionConcepts == {0, 100}
DrugConcepts == {0, 200}
Ingredients == {100, 101}
\* drug_exposure.quantity: null, zero, a dose
Quantities == {NaT, 0, 10}

\* rows of cdm.condition_occurrence, as far as the query reads them
ConditionOccurrence ==
    [person_id : Persons, concept_id : ConditionConcepts,
     start_date : StepDates, end_date : StepDates \cup {NaT}]

\* rows of cdm.drug_exposure, quantities drawn from Q
DrugExposure(Q) ==
    [person_id : Persons, concept_id : DrugConcepts,
     start_date : StepDates, end_date : StepDates \cup {NaT}, quantity : Q]

\* the rows of R in some fixed order
RECURSIVE Listed(_)
Listed(R) ==
    IF R = {} THEN <<>>
    ELSE LET m == CHOOSE x \in R : TRUE
         IN <<m>> \o Listed(R \ {m})

\* contents of the source table of variant v: at most MaxStepRows rows;
\* the drug era query does not read the quantity
StepTables(v) ==
    FramesOver(Listed(CASE v = "condition" -> ConditionOccurrence
                        [] v = "drug" -> DrugExposure({10})
                        [] OTHER -> DrugExposure(Quantities)), MaxStepRows)

\* concept_ancestor restricted to standard Ingredient ancestors: the
\* ingredients of each mapped drug concept
AncestorMaps == [DrugConcepts \ {0} -> SUBSET Ingredients]

\* a row left in the era table by an earlier run (no id of this run is 7)
EarlierRun(v) ==
    CASE v = "condition" -> <<<<1, 100, 0, 0, 1, 7>>>>
      [] v = "drug" -> <<<<1, 100, 0, 0, 1, 0, 7>>>>
      [] OTHER -> <<<<1, 200, 0, 10, 0, 0, 7>>>>

\* ORDER BY: row r put into the ordered rows s
RECURSIVE InsertRow(_, _, _)
InsertRow(v, s, r) ==
    IF s = <<>> THEN <<r>>
    ELSE IF TupleLess(QueryOrder(v, r), QueryOrder(v, Head(s)))
    THEN <<r>> \o s
    ELSE <<Head(s)>> \o InsertRow(v, Tail(s), r)

\* variant of GetConditionOccurrences: no WHERE clause
RECURSIVE GetConditionOccurrencesAll(_)
GetConditionOccurrencesAll(t) ==
    IF t = <<>> THEN <<>>
    ELSE InsertRow("condition", GetConditionOccurrencesAll(Tail(t)), Head(t))

\* _get_condition_occurrences: WHERE condition_concept_id != 0 ORDER BY ...
RECURSIVE GetConditionOccurrences(_)
GetConditionOccurrences(t) ==
    IF t = <<>> THEN <<>>
    ELSE IF Head(t).concept_id # 0
    THEN InsertRow("condition", GetConditionOccurrences(Tail(t)), Head(t))
    ELSE GetConditionOccurrences(Tail(t))

\* the columns the drug era queries select, with concept c
DrugRow(r, c) ==
    [person_id |-> r.person_id, concept_id |-> c,
     start_date |-> r.start_date, end_date |-> r.end_date]

\* the ingredient ancestors the LEFT JOIN finds for drug concept c
Ancestors(c) == IF c \in DOMAIN ancestors THEN ancestors[c] ELSE {}

\* the joined rows of exposure r, one for each ancestor in A, put into s
RECURSIVE InsertJoined(_, _, _)
InsertJoined(s, r, A) ==
    IF A = {} THEN s
    ELSE LET a == CHOOSE x \in A : TRUE
         IN InsertJoined(InsertRow("drug", s, DrugRow(r, a)), r, A \ {a})

\* variant of GetDrugExposures: an inner join, exposures without an
\* ingredient ancestor are not selected
RECURSIVE GetDrugExposuresInner(_)
GetDrugExposuresInner(t) ==
    IF t = <<>> THEN <<>>
    ELSE IF Head(t).concept_id # 0
    THEN InsertJoined(GetDrugExposuresInner(Tail(t)), Head(t),
                      Ancestors(Head(t).concept_id))
    ELSE GetDrugExposuresInner(Tail(t))

\* _get_drug_exposures, the ingredient query: LEFT JOIN concept_ancestor,
\* COALESCE(ca.ancestor_concept_id, de.drug_concept_id),
\* WHERE de.drug_concept_id != 0 ORDER BY ...
RECURSIVE GetDrugExposures(_)
GetDrugExposures(t) ==
    IF t = <<>> THEN <<>>
    ELSE IF Head(t).concept_id # 0
    THEN IF Ancestors(Head(t).concept_id) = {}
         THEN InsertRow("drug", GetDrugExposures(Tail(t)),
                        DrugRow(Head(t), Head(t).concept_id))
         ELSE InsertJoined(GetDrugExposures(Tail(t)), Head(t),
                           Ancestors(Head(t).concept_id))
    ELSE GetDrugExposures(Tail(t))

\* _get_drug_exposures, the fallback query: drug_concept_id as stored
RECURSIVE GetDrugExposuresFallback(_)
GetDrugExposuresFallback(t) ==
    IF t = <<>> THEN <<>>
    ELSE IF Head(t).concept_id # 0
    THEN InsertRow("drug", GetDrugExposuresFallback(Tail(t)),
                   DrugRow(Head(t), Head(t).concept_id))
    ELSE GetDrugExposuresFallback(Tail(t))

\* the query that gives exposures_df: the ingredient query, the fallback
\* query if that raised, none if the fallback query raised too
DrugQueryPath(ingredient_raises, fallback_raises) ==
    IF ~ingredient_raises THEN "ingredient"
    ELSE IF ~fallback_raises THEN "fallback"
    ELSE "raised"

\* _get_drug_exposures_with_dose: quantity as dose_value, 0 as
\* unit_concept_id, WHERE drug_concept_id != 0 AND quantity IS NOT NULL AND
\* quantity > 0 ORDER BY ...
RECURSIVE GetDrugExposuresWithDose(_)
GetDrugExposuresWithDose(t) ==
    IF t = <<>> THEN <<>>
    ELSE LET r == Head(t)
         IN IF r.concept_id # 0 /\ r.quantity # NaT /\ r.quantity > 0
            THEN InsertRow("dose", GetDrugExposuresWithDose(Tail(t)),
                           [person_id |-> r.person_id,
                            concept_id |-> r.concept_id,
                            dose_value |-> r.quantity, unit_concept_id |-> 0,
                            start_date |-> r.start_date,
                            end_date |-> r.end_date])
            ELSE GetDrugExposuresWithDose(Tail(t))

\* variant of Empty: no frame counts as empty
EmptyNever(frame) == FALSE

\* DataFrame.empty
Empty(frame) == frame = <<>>

\* variant of Cleared: the table is left as it is
ClearedNever(table, raised) == table

\* clear_..._era_table: DELETE FROM the era table; an exception of the
\* DELETE is logged and not raised again
Cleared(table, raised) == IF raised THEN table ELSE <<>>

\* the loader's batch size for total rows
EffectiveBatchSize(batch_size, total) ==
    IF batch_size <= 0 \/ batch_size > total THEN total ELSE batch_size

\* variant of NumBatches: the quotient rounded down
NumBatchesFloor(total, batch_size) == total \div batch_size

\* math.ceil(total / batch_size)
NumBatches(total, batch_size) == (total + batch_size - 1) \div batch_size

\* the rows of the first k batches, appended batch by batch
RECURSIVE Inserted(_, _, _)
Inserted(rows, batch_size, k) ==
    IF k = 0 THEN <<>>
    ELSE LET end == IF k * batch_size < Len(rows) THEN k * batch_size
                    ELSE Len(rows)
         IN Inserted(rows, batch_size, k - 1)
              \o SubSeq(rows, (k - 1) * batch_size + 1, end)

\* what a call of the loader can end with: the rows it appended to the
\* table and the value it returned.  An empty frame is refused; total = 0
\* past that test divides by zero; batch k + 1 may raise after k batches
\* were inserted; the count query after the last batch may raise.
LoadConditionEras(rows, batch_size) ==
    IF Empty(rows) \/ EffectiveBatchSize(batch_size, Len(rows)) = 0
    THEN {[inserted |-> <<>>, ok |-> FALSE]}
    ELSE LET b == EffectiveBatchSize(batch_size, Len(rows))
             n == NumBatches(Len(rows), b)
         IN {[inserted |-> Inserted(rows, b, k), ok |-> FALSE] : k \in 0..n}
              \cup {[inserted |-> Inserted(rows, b, n), ok |-> TRUE]}

LoadDrugEras(rows, batch_size) ==
    IF Empty(rows) \/ EffectiveBatchSize(batch_size, Len(rows)) = 0
    THEN {[inserted |-> <<>>, ok |-> FALSE]}
    ELSE LET b == EffectiveBatchSize(batch_size, Len(rows))
             n == NumBatches(Len(rows), b)
         IN {[inserted |-> Inserted(rows, b, k), ok |-> FALSE] : k \in 0..n}
              \cup {[inserted |-> Inserted(rows, b, n), ok |-> TRUE]}

\* DoseEraLoader.load_dose_eras: a batch insert like the other two loaders
LoadDoseEras(rows, batch_size) ==
    IF Empty(rows) \/ EffectiveBatchSize(batch_size, Len(rows)) = 0
    THEN {[inserted |-> <<>>, ok |-> FALSE]}
    ELSE LET b == EffectiveBatchSize(batch_size, Len(rows))
             n == NumBatches(Len(rows), b)
         IN {[inserted |-> Inserted(rows, b, k), ok |-> FALSE] : k \in 0..n}
              \cup {[inserted |-> Inserted(rows, b, n), ok |-> TRUE]}

\* entry of an era step: the transformer is not constructed yet
InitStep ==
    /\ variant \in {"condition", "drug", "dose"}
    /\ source \in StepTables(variant)
    /\ ancestors \in (IF variant = "drug" THEN AncestorMaps ELSE {<<>>})
    /\ era_table \in {<<>>, EarlierRun(variant)}
    /\ step = "clear"
    /\ query_path = "none"
    /\ success = "none"
    /\ loader_calls = 0
    /\ errors = 0
    /\ gap_days = DefaultGapDays
    /\ df = <<>>
    /\ pc = "none"
    /\ keys = <<>>
    /\ eras = <<>>
    /\ hash_ids = <<>>
    /\ era_ids = <<>>
    /\ Single
    /\ NoConversion
    /\ NoPipeline
    /\ NoLoad

\* self.clear_..._era_table()
ClearEraTable ==
    /\ step = "clear"
    /\ \E raised \in BOOLEAN : era_table' = Cleared(era_table, raised)
    /\ step' = "transform"
    /\ UNCHANGED <<builder, md5, loading, twice, hashing, pipeline, source,
                   ancestors,
                   query_path, success, loader_calls, errors>>

\* the source query raised: transform() raises, the step's handler appends
\* to stats['errors'] and returns False
StepRaised ==
    /\ step' = "returned"
    /\ query_path' = "raised"
    /\ success' = "False"
    /\ errors' = errors + 1
    /\ UNCHANGED <<df, pc>>

\* the source query returned the frame f: transform() returns an empty
\* frame and the step True if f is empty, else _build_eras is entered
StepQueried(f, path) ==
    /\ query_path' = path
    /\ df' = f
    /\ errors' = errors
    /\ IF Empty(f)
       THEN step' = "returned" /\ success' = "True" /\ pc' = pc
       ELSE step' = "build" /\ success' = success /\ pc' = "groupby"

\* ConditionEraTransformer(self.db_manager).transform() up to _build_eras
TransformCondition ==
    /\ step = "transform"
    /\ variant = "condition"
    /\ \E raises \in BOOLEAN :
         IF raises THEN StepRaised
         ELSE StepQueried(GetConditionOccurrences(source), "plain")
    /\ UNCHANGED <<variant, gap_days, keys, eras, hash_ids, era_ids, md5,
                   loading,
                   twice, hashing, pipeline, source, ancestors, era_table,
                   loader_calls>>

\* DrugEraTransformer(self.db_manager).transform() up to _build_eras
TransformDrug ==
    /\ step = "transform"
    /\ variant = "drug"
    /\ \E ingredient_raises, fallback_raises \in BOOLEAN :
         LET path == DrugQueryPath(ingredient_raises, fallback_raises)
         IN CASE path = "ingredient" ->
                   StepQueried(GetDrugExposures(source), path)
              [] path = "fallback" ->
                   StepQueried(GetDrugExposuresFallback(source), path)
              [] OTHER -> StepRaised
    /\ UNCHANGED <<variant, gap_days, keys, eras, hash_ids, era_ids, md5,
                   loading,
                   twice, hashing, pipeline, source, ancestors, era_table,
                   loader_calls>>

\* DoseEraTransformer(self.db_manager).transform() up to _build_eras
TransformDose ==
    /\ step = "transform"
    /\ variant = "dose"
    /\ \E raises \in BOOLEAN :
         IF raises THEN StepRaised
         ELSE StepQueried(GetDrugExposuresWithDose(source), "plain")
    /\ UNCHANGED <<variant, gap_days, keys, eras, hash_ids, era_ids, md5,
                   loading,
                   twice, hashing, pipeline, source, ancestors, era_table,
                   loader_calls>>

\* _build_eras returned: transform() returns the frame, the step returns
\* True on an empty frame and otherwise what the loader's call gives
\* (verify_data changes nothing and raises nothing); outcomes are the ends
\* the loader's call can have
StepLoaded(outcomes) ==
    IF Empty(eras)
    THEN /\ success' = "True"
         /\ UNCHANGED <<era_table, loader_calls>>
    ELSE /\ loader_calls' = loader_calls + 1
         /\ \E o \in outcomes :
              /\ era_table' = era_table \o o.inserted
              /\ success' = IF o.ok THEN "True" ELSE "False"

LoadCondition ==
    /\ step = "build"
    /\ pc = "done"
    /\ variant = "condition"
    /\ StepLoaded(LoadConditionEras(Returned, StepBatchSize))
    /\ step' = "returned"
    /\ UNCHANGED <<builder, md5, loading, twice, hashing, pipeline, source,
                   ancestors,
                   query_path, errors>>

LoadDrug ==
    /\ step = "build"
    /\ pc = "done"
    /\ variant = "drug"
    /\ StepLoaded(LoadDrugEras(Returned, StepBatchSize))
    /\ step' = "returned"
    /\ UNCHANGED <<builder, md5, loading, twice, hashing, pipeline, source,
                   ancestors,
                   query_path, errors>>

LoadDose ==
    /\ step = "build"
    /\ pc = "done"
    /\ variant = "dose"
    /\ StepLoaded(LoadDoseEras(Returned, StepBatchSize))
    /\ step' = "returned"
    /\ UNCHANGED <<builder, md5, loading, twice, hashing, pipeline, source,
                   ancestors,
                   query_path, errors>>

NextStep ==
    \/ ClearEraTable
    \/ TransformCondition
    \/ TransformDrug
    \/ TransformDose
    \/ GroupByCondition
    \/ BuildGroupCondition
    \/ GenerateIdsCondition
    \/ GroupByDrug
    \/ BuildGroupDrug
    \/ GenerateIdsDrug
    \/ GroupByDose
    \/ BuildGroupDose
    \/ GenerateIdsDose
    \/ LoadCondition
    \/ LoadDrug
    \/ LoadDose

SpecStep == InitStep /\ [][NextStep]_vars

\* ---------------------------------------------------------- run_pipeline
\* tables of a run that names its tables (--tables)
MaxTables == 3

\* ALL_TABLES of main(), the list of a run with --all
ALL_TABLES ==
    <<"location", "care_site", "provider", "person", "visit_occurrence",
      "update_person", "condition_occurrence", "observation",
      "observation_period", "procedure_occurrence", "death", "drug_exposure",
      "measurement", "condition_era", "drug_era", "dose_era">>

\* the names run_pipeline has a step for
Handled == {ALL_TABLES[n] : n \in 1..Len(ALL_TABLES)}

\* names given with --tables: era tables, their sources, a name without step
TableNames ==
    {"condition_occurrence", "drug_exposure", "condition_era", "drug_era",
     "dose_era", "care_plan"}

\* what a step's call can end with: a returned value or an exception
StepOutcomes == {"True", "False", "raise"}

\* variant of StopsAfter: the returned value is not looked at
StopsAfterRaise(outcome) == outcome = "raise"

\* if not success: return False; an exception leaves through the handler of
\* run_pipeline, which returns False as well
StopsAfter(outcome) == outcome # "True"

\* an idle builder, no conversion, a single run
NoBuilder ==
    /\ variant = "none"
    /\ df = <<>>
    /\ gap_days = 0
    /\ pc = "none"
    /\ keys = <<>>
    /\ eras = <<>>
    /\ hash_ids = <<>>
    /\ era_ids = <<>>

\* main(): --all gives ALL_TABLES, otherwise the names of --tables;
\* run_pipeline is entered
InitRun ==
    /\ tables_to_process \in
         {ALL_TABLES} \cup UNION {[1..n -> TableNames] : n \in 1..MaxTables}
    /\ position = 0
    /\ log = <<>>
    /\ pipeline_result = "running"
    /\ NoBuilder
    /\ Single
    /\ NoConversion
    /\ NoStep
    /\ NoLoad

\* _setup_and_validate: the connection test and the data summary
SetupAndValidate ==
    /\ pipeline_result = "running"
    /\ position = 0
    /\ \E valid \in BOOLEAN :
         IF valid
         THEN position' = 1 /\ UNCHANGED pipeline_result
         ELSE pipeline_result' = "False" /\ UNCHANGED position
    /\ UNCHANGED <<builder, md5, loading, twice, hashing, stage,
                   tables_to_process, log>>

\* one pass of the loop over tables_to_process: the step of the table is
\* called, or the name has no step and is skipped
ProcessTable ==
    /\ pipeline_result = "running"
    /\ position \in 1..Len(tables_to_process)
    /\ LET table == tables_to_process[position]
       IN IF table \in Handled
          THEN \E outcome \in StepOutcomes :
                 /\ log' = Append(log, <<table, outcome>>)
                 /\ IF StopsAfter(outcome)
                    THEN pipeline_result' = "False" /\ UNCHANGED position
                    ELSE position' = position + 1 /\ UNCHANGED pipeline_result
          ELSE /\ position' = position + 1
               /\ UNCHANGED <<log, pipeline_result>>
    /\ UNCHANGED <<builder, md5, loading, twice, hashing, stage,
                   tables_to_process>>

\* the loop is over: _print_summary, return True
Summary ==
    /\ pipeline_result = "running"
    /\ position = Len(tables_to_process) + 1
    /\ pipeline_result' = "True"
    /\ UNCHANGED <<builder, md5, loading, twice, hashing, stage,
                   tables_to_process,
                   position, log>>

NextRun ==
    \/ SetupAndValidate
    \/ ProcessTable
    \/ Summary

SpecRun == InitRun /\ [][NextRun]_vars

\* ------------------------------------------------- the era loaders, alone
\* rows of the frame given to a loader
MaxLoadRows == 3

\* batch_size arguments: negative, zero, within the frame, beyond it
BatchSizes == (0 - 1)..(MaxLoadRows + 1)

Min(a, b) == IF a <= b THEN a ELSE b

\* era row p of a frame of variant v (the id last)
LoaderRow(v, p) ==
    IF v = "condition" THEN <<1, 100, p, p, 1, p>>
    ELSE <<1, 100, p, p, 1, 0, p>>

\* the frames a loader is called with: None, and frames of 0..MaxLoadRows rows
LoaderFrames(v) ==
    {None} \cup {DataFrame([p \in 1..n |-> LoaderRow(v, p)]) :
                    n \in 0..MaxLoadRows}

\* variant of FailedBatch: the rows of the earlier batches are taken back
FailedBatchRollback(table, inserted) ==
    SubSeq(table, 1, Len(table) - inserted)

\* the table after to_sql raised with `inserted` rows of earlier batches in
\* it: each to_sql call committed its own chunk, the handler undoes nothing
FailedBatch(table, inserted) == table

\* load_condition_eras / load_drug_eras is called on a frame
InitLoad ==
    /\ variant \in {"condition", "drug"}
    /\ load_pc = "entry"
    /\ load_df \in LoaderFrames(variant)
    /\ load_batch_size \in BatchSizes
    /\ load_batch = 0
    /\ load_num_batches = 0
    /\ load_start = 0
    /\ load_chunks = <<>>
    /\ load_result = "none"
    /\ era_table \in {<<>>, EarlierRun(variant)}
    /\ step = "none"
    /\ source = <<>>
    /\ ancestors = <<>>
    /\ query_path = "none"
    /\ success = "none"
    /\ loader_calls = 0
    /\ errors = 0
    /\ df = <<>>
    /\ gap_days = 0
    /\ pc = "none"
    /\ keys = <<>>
    /\ eras = <<>>
    /\ hash_ids = <<>>
    /\ era_ids = <<>>
    /\ Single
    /\ NoConversion
    /\ NoPipeline

\* if eras_df is None or eras_df.empty: return False; else total,
\* batch_size, num_batches, start = 0
LoadErasEnter ==
    /\ load_pc = "entry"
    /\ IF load_df.is_none \/ Empty(load_df.rows)
       THEN /\ load_result' = "False"
            /\ load_pc' = "returned"
            /\ UNCHANGED <<load_batch, load_num_batches, load_start>>
       ELSE LET total == Len(load_df.rows)
                b == EffectiveBatchSize(load_batch_size, total)
            IN /\ load_batch' = b
               /\ load_num_batches' = NumBatches(total, b)
               /\ load_start' = 0
               /\ load_pc' = "loop"
               /\ UNCHANGED load_result
    /\ UNCHANGED <<load_df, load_batch_size, load_chunks>>
    /\ UNCHANGED <<builder, md5, twice, hashing, pipeline, stage>>

\* one pass of the batch loop: chunk = df.iloc[start:end] is appended to
\* the table by to_sql in a transaction of its own, or to_sql raises and
\* the handler returns False
LoadErasBatch ==
    /\ load_pc = "loop"
    /\ Len(load_chunks) < load_num_batches
    /\ \E raised \in BOOLEAN :
         IF raised
         THEN /\ load_result' = "False"
              /\ load_pc' = "returned"
              /\ era_table' = FailedBatch(era_table, load_start)
              /\ UNCHANGED <<load_chunks, load_start>>
         ELSE LET end == Min(load_start + load_batch, Len(load_df.rows))
                  chunk == SubSeq(load_df.rows, load_start + 1, end)
              IN /\ era_table' = era_table \o chunk
                 /\ load_chunks' = Append(load_chunks, chunk)
                 /\ load_start' = end
                 /\ load_pc' = IF Len(load_chunks) + 1 = load_num_batches
                               THEN "count" ELSE "loop"
                 /\ UNCHANGED load_result
    /\ UNCHANGED <<load_df, load_batch_size, load_batch, load_num_batches>>
    /\ UNCHANGED <<builder, md5, twice, hashing, pipeline, step, source,
                   ancestors, query_path, success, loader_calls, errors>>

\* the count query after the loop, then return True; if the query raises
\* the handler returns False
LoadErasCount ==
    /\ load_pc = "count"
    /\ \E raised \in BOOLEAN :
         load_result' = IF raised THEN "False" ELSE "True"
    /\ load_pc' = "returned"
    /\ UNCHANGED <<load_df, load_batch_size, load_batch, load_num_batches,
                   load_start, load_chunks>>
    /\ UNCHANGED <<builder, md5, twice, hashing, pipeline, stage>>

NextLoad ==
    \/ LoadErasEnter
    \/ LoadErasBatch
    \/ LoadErasCount

SpecLoad == InitLoad /\ [][NextLoad]_vars

\* ============================================================ properties
Done == pc = "done"

Range(s) == {s[p] : p \in 1..Len(s)}

EraIndex == 1..Len(eras)

\* start date and defaulted end date of row m of df
Start(m) == df[m].start_date
End(m) ==
    CASE variant = "condition" -> ConditionEndDate(df[m])
      [] variant = "drug" -> DrugEndDate(df[m])
      [] OTHER -> DoseEndDate(df[m])

\* the group an era was emitted for
EraGroup(e) ==
    IF variant = "dose"
    THEN <<e.person_id, e.concept_id, e.dose_value, e.unit_concept_id>>
    ELSE <<e.person_id, e.concept_id>>

Groups == {GroupKey(df[n]) : n \in 1..Len(df)}
ErasOf(k) == {a \in EraIndex : EraGroup(eras[a]) = k}
RowEras(m) == {a \in EraIndex : m \in Range(eras[a].members)}

\* the sorted series of group k: the members of its eras, in emission order
RECURSIVE SeriesFrom(_, _)
SeriesFrom(k, a) ==
    IF a > Len(eras) THEN <<>>
    ELSE (IF EraGroup(eras[a]) = k THEN eras[a].members ELSE <<>>)
         \o SeriesFrom(k, a + 1)
Series(k) == SeriesFrom(k, 1)

\* every source record ends on or after its start, or has no end date
ValidEnds ==
    \A n \in 1..Len(df) :
        notna(df[n].end_date) => df[n].start_date <= df[n].end_date

\* C1: two eras emitted for the same group, the first before the second, are
\* disjoint and more than gap_days days apart (gap_days >= 0).
EraSeparation ==
    \A a, b \in EraIndex :
        (a < b /\ EraGroup(eras[a]) = EraGroup(eras[b]))
        => /\ eras[a].era_end_date < eras[b].era_start_date
           /\ eras[b].era_start_date - eras[a].era_end_date > gap_days

\* three eras of one group: the first and the third are compared too
EraSeparationWitness ==
    /\ Done
    /\ \E a, b \in EraIndex :
         /\ a + 2 <= b
         /\ EraGroup(eras[a]) = EraGroup(eras[b])

CoveredOnce(n) ==
    Cardinality({a \in ErasOf(GroupKey(df[n])) :
                    /\ eras[a].era_start_date <= Start(n)
                    /\ Start(n) <= eras[a].era_end_date}) = 1

\* C2 as claimed: every source record's start date lies in exactly one era
\* of its group, for every input.
Coverage == Done => \A n \in 1..Len(df) : CoveredOnce(n)

\* C2 amended: every source record's start date lies in exactly one era of
\* its group, provided no source record ends before it starts.
CoverageValidEnds ==
    (Done /\ ValidEnds) => \A n \in 1..Len(df) : CoveredOnce(n)

CoverageWitness ==
    /\ Done
    /\ ValidEnds
    /\ Len(df) >= 3
    /\ Len(eras) >= 2
    /\ \E n \in 1..Len(df) : ~notna(df[n].end_date)
    /\ \E a \in EraIndex : Len(eras[a].members) >= 2

RECURSIVE SumCounts(_)
SumCounts(S) ==
    IF S = {} THEN 0
    ELSE LET a == CHOOSE x \in S : TRUE
         IN eras[a].occurrence_count + SumCounts(S \ {a})

\* C3: in the condition and drug builders every era's occurrence count is at
\* least 1 and is the number of records merged into it, the eras of a group
\* are built from each of its records once, and the counts of a group add up
\* to the number of its records.
OccurrenceCounts ==
    variant \in {"condition", "drug"} =>
        /\ \A a \in EraIndex :
             /\ eras[a].occurrence_count >= 1
             /\ eras[a].occurrence_count = Len(eras[a].members)
             /\ Cardinality(Range(eras[a].members)) = Len(eras[a].members)
        /\ Done =>
             \A k \in Groups :
                /\ \A n \in GroupIndex(k) :
                      Cardinality(RowEras(n)) = 1 /\ RowEras(n) \subseteq ErasOf(k)
                /\ SumCounts(ErasOf(k)) = Cardinality(GroupIndex(k))

OccurrenceCountsWitness ==
    /\ Done
    /\ variant = "condition"
    /\ Len(eras) >= 2
    /\ \E a \in EraIndex : a >= 2 /\ eras[a].occurrence_count >= 2

\* C4: two records of a group, the first before the second in the series
\* sorted by start date, whose gap (second start minus first end) is at most
\* gap_days are in the same era, whatever records lie between them.
MergeContract ==
    Done =>
        \A k \in Groups :
            LET series == Series(k)
            IN /\ Range(series) = GroupIndex(k)
               /\ \A p, q \in 1..Len(series) :
                    p < q =>
                      /\ Start(series[p]) <= Start(series[q])
                      /\ Start(series[q]) - End(series[p]) <= gap_days
                           => RowEras(series[p]) = RowEras(series[q])

\* a record between the two ends early enough that, measured from it alone,
\* the second record would have started a new era
MergeContractWitness ==
    /\ Done
    /\ \E a \in EraIndex :
         LET mem == eras[a].members
         IN /\ Len(mem) >= 3
            /\ Start(mem[3]) - End(mem[1]) <= gap_days
            /\ Start(mem[3]) - End(mem[2]) > gap_days

\* C5: in a group of two records, a second start exactly gap_days days after
\* the first end gives one era holding both; gap_days + 1 days gives two eras
\* of one record each.
ThresholdBoundary ==
    Done =>
        \A k \in Groups :
            LET series == Series(k)
                E == ErasOf(k)
            IN Cardinality(GroupIndex(k)) = 2 =>
                 /\ Len(series) = 2
                 /\ Start(series[2]) - End(series[1]) = gap_days
                      => /\ Cardinality(E) = 1
                         /\ \A a \in E :
                              /\ eras[a].members = series
                              /\ variant # "dose" => eras[a].occurrence_count = 2
                 /\ Start(series[2]) - End(series[1]) = gap_days + 1
                      => /\ Cardinality(E) = 2
                         /\ \A a \in E :
                              /\ Len(eras[a].members) = 1
                              /\ variant # "dose" => eras[a].occurrence_count = 1

ThresholdBoundaryWitness ==
    /\ Done
    /\ gap_days >= 1
    /\ Len(df) = 2
    /\ Len(eras) = 1
    /\ eras[1].members = <<1, 2>>
    /\ Start(2) - End(1) = gap_days

\* largest end date among the first j members of an era
RECURSIVE MaxEnd(_, _)
MaxEnd(mem, j) ==
    IF j = 1 THEN End(mem[1]) ELSE Max(MaxEnd(mem, j - 1), End(mem[j]))

\* gap of member j to the era end reached by the members before it
GapAt(mem, j) == Start(mem[j]) - MaxEnd(mem, j - 1)

\* sum of the positive gaps of the members after the first
RECURSIVE PositiveGaps(_, _)
PositiveGaps(mem, j) ==
    IF j <= 1 THEN 0
    ELSE PositiveGaps(mem, j - 1)
         + (IF GapAt(mem, j) > 0 THEN GapAt(mem, j) ELSE 0)

\* C6: a drug era's gap_days is the sum of the positive gaps between each
\* merged record after the first and the running era end; overlaps add
\* nothing and a single-record era has gap_days 0.
DrugGapDays ==
    variant = "drug" =>
        \A a \in EraIndex :
            /\ eras[a].gap_days
                 = PositiveGaps(eras[a].members, Len(eras[a].members))
            /\ Len(eras[a].members) = 1 => eras[a].gap_days = 0

\* an era that absorbed a positive gap and then an overlapping record
DrugGapDaysWitness ==
    /\ Done
    /\ variant = "drug"
    /\ \E a \in EraIndex :
         LET mem == eras[a].members
         IN /\ Len(mem) >= 3
            /\ GapAt(mem, 2) > 0
            /\ GapAt(mem, 3) < 0
            /\ eras[a].gap_days = GapAt(mem, 2)

\* C7 as claimed: every era has era_start_date <= era_end_date, for every
\* input with non-null start dates.
EraStartNotAfterEnd ==
    \A a \in EraIndex : eras[a].era_start_date <= eras[a].era_end_date

\* C7 amended: every era has era_start_date <= era_end_date, provided every
\* source record's end date is null or not before its start date.
EraStartNotAfterEndValidEnds == ValidEnds => EraStartNotAfterEnd

EraStartNotAfterEndWitness ==
    /\ Done
    /\ ValidEnds
    /\ variant = "drug"
    /\ Len(eras) >= 2
    /\ \E a \in EraIndex :
         /\ Len(eras[a].members) = 1
         /\ ~notna(df[eras[a].members[1]].end_date)

\* C8: records of one person and drug with different dose_value are never in
\* the same dose era; a dose era carries the dose_value of all its records.
DoseGroupingStrict ==
    variant = "dose" =>
        /\ \A a \in EraIndex :
              \A m \in Range(eras[a].members) :
                 df[m].dose_value = eras[a].dose_value
        /\ Done =>
              \A m, n \in 1..Len(df) :
                 /\ RowEras(m) # {}
                 /\ df[m].dose_value # df[n].dose_value
                      => RowEras(m) \cap RowEras(n) = {}

\* two doses on the same dates
DoseGroupingStrictWitness ==
    /\ Done
    /\ variant = "dose"
    /\ Len(eras) = 2
    /\ \E m, n \in 1..Len(df) :
         /\ df[m].dose_value # df[n].dose_value
         /\ df[m].person_id = df[n].person_id
         /\ df[m].concept_id = df[n].concept_id
         /\ df[m].start_date = df[n].start_date
         /\ df[m].end_date = df[n].end_date

\* C9: the dose_era_id values of the output are pairwise distinct, whatever
\* the hash returns.
DoseEraIdsDistinct ==
    (Done /\ variant = "dose") =>
        /\ Len(era_ids) = Len(eras)
        /\ \A a, b \in EraIndex : a # b => era_ids[a] # era_ids[b]

\* the hash returned the same id for two rows
DoseEraIdsDistinctWitness ==
    /\ Done
    /\ variant = "dose"
    /\ Len(eras) >= 2
    /\ \E a, b \in EraIndex : a # b /\ hash_ids[a] = hash_ids[b]

\* C10: if the hash-derived ids of the N output rows repeat a value, row k
\* gets id k for k = 1..N; if they are pairwise distinct every row keeps its
\* hash-derived id.
DoseCollisionFallback ==
    (Done /\ variant = "dose" /\ eras # <<>>) =>
        IF Cardinality(Range(hash_ids)) < Len(eras)
        THEN \A k \in EraIndex : era_ids[k] = k
        ELSE \A k \in EraIndex : era_ids[k] = hash_ids[k]

\* distinct hash ids that differ from the sequential numbering are kept
DoseCollisionFallbackWitness ==
    /\ Done
    /\ variant = "dose"
    /\ Len(eras) >= 2
    /\ Cardinality(Range(hash_ids)) = Len(eras)
    /\ era_ids = hash_ids
    /\ \E k \in EraIndex : era_ids[k] # k

\* ------------------------------------------------------------------ C11
\* both calls of the builder have returned
BothDone == run = 2 /\ pc = "done"

\* no two rows of either call were given the same hash id
NoKeyCollision == ~Duplicated(first[2]) /\ ~Duplicated(hash_ids)

\* C11 as stated: two calls of a builder over the same source snapshot
\* return the same set of era rows with the same era ids, provided no two
\* rows collide on their hash id.
Idempotence ==
    (BothDone /\ NoKeyCollision) => Range(Returned) = Range(first[1])

\* C11 amended: the same, over sources in which no record ends before it
\* starts (a null end date allowed).
IdempotenceValidEnds ==
    (BothDone /\ NoKeyCollision /\ ValidEnds)
        => Range(Returned) = Range(first[1])

\* both calls returned an era of two records that tie on the start date and
\* differ in the end date, and the two calls sorted the tie differently
IdempotenceWitness ==
    /\ BothDone
    /\ NoKeyCollision
    /\ ValidEnds
    /\ Len(df) = 2
    /\ df[1].start_date = df[2].start_date
    /\ df[1].end_date # df[2].end_date
    /\ Len(eras) = 1
    /\ first[3] # [n \in 1..Len(eras) |-> eras[n].members]
\* ------------------------------------------------------------------ C12
\* C12: for every digest, _generate_era_id of each of the three variants
\* returns an integer in [1, 2147483647].
EraIdRange ==
    (id_out # <<>> /\ id_out[1] \in {"condition_era", "drug_era", "dose_era"})
        => (1 <= id_out[2] /\ id_out[2] <= 2147483647)

\* a digest whose leading bytes read above 2^31 was hashed to the largest id
EraIdRangeWitness ==
    /\ id_out # <<>>
    /\ id_out[1] \in {"condition_era", "drug_era", "dose_era"}
    /\ digest[1] >= 128
    /\ id_out[2] = 2147483647

\* ------------------------------------------------------------------ C20
\* C20: on every identifier, UUIDConverter.person_id, provider_id and
\* care_site_id return what PersonTransformer, ProviderTransformer and
\* CareSiteTransformer._uuid_to_int return.
ConverterAgreement ==
    (id_out # <<>> /\ id_out[1] \in {"person", "provider", "care_site"})
        => id_out[2] = id_out[3]

\* a person identifier whose digest reads above 2^31 went through both
\* functions, and the person algorithm differs from the provider one on it
ConverterAgreementWitness ==
    /\ id_out # <<>>
    /\ id_out[1] = "person"
    /\ digest[1] >= 128
    /\ id_out[3] # ProviderTransformerUuidToInt(digest)

\* ------------------------------------------------------------------ C13
\* the end date C13 gives row m of df
TreatedEnd(m) ==
    IF df[m].end_date # NaT THEN df[m].end_date
    ELSE IF variant = "condition" THEN df[m].start_date
    ELSE df[m].start_date + 1

\* largest such end date among the first j members of an era
RECURSIVE TreatedMaxEnd(_, _)
TreatedMaxEnd(mem, j) ==
    IF j = 1 THEN TreatedEnd(mem[1])
    ELSE Max(TreatedMaxEnd(mem, j - 1), TreatedEnd(mem[j]))

\* C13: a record with a null end date counts, in every gap comparison and in
\* the era's end, as ending on its start date (condition) or on the day
\* after it (drug, dose); a record with an end date keeps it.  So each era
\* ends on the largest such end of its records, each record merged into an
\* era starts at most gap_days after the largest such end before it, and
\* the record opening the next era of the group starts more than gap_days
\* after the largest such end of the era before.
NullEndDefault ==
    Done =>
        \A n \in EraIndex :
            LET mem == eras[n].members
            IN /\ eras[n].era_end_date = TreatedMaxEnd(mem, Len(mem))
               /\ \A j \in 2..Len(mem) :
                     Start(mem[j]) - TreatedMaxEnd(mem, j - 1) <= gap_days
               /\ (n < Len(eras) /\ EraGroup(eras[n + 1]) = EraGroup(eras[n]))
                     => Start(eras[n + 1].members[1])
                          - TreatedMaxEnd(mem, Len(mem)) > gap_days

\* a drug record without end date was merged with a later record that
\* starts more than gap_days after its start, and the era ends on the day
\* after the start of a record without end date
NullEndDefaultWitness ==
    /\ Done
    /\ variant = "drug"
    /\ \E n \in EraIndex :
         LET mem == eras[n].members
         IN /\ Len(mem) = 2
            /\ df[mem[1]].end_date = NaT
            /\ df[mem[2]].end_date = NaT
            /\ Start(mem[2]) - Start(mem[1]) > gap_days
            /\ eras[n].era_end_date = Start(mem[2]) + 1

\* ------------------------------------------------------------------ C16
\* the id _generate_era_id gives output row n: that of the digest md5 has
\* for the row's key
HashIdOf(n) ==
    LET kd == CHOOSE kd \in md5 :
                  kd[1] = (IF variant = "condition" THEN ConditionEraKey(n)
                           ELSE DrugEraKey(n))
    IN IF variant = "condition" THEN ConditionGenerateEraId(kd[2])
       ELSE DrugGenerateEraId(kd[2])

\* C16: the condition and drug builders return every era with the hash id
\* of its key, also when two eras have the same id: no id is replaced and
\* no row is dropped.
NoCollisionDetection ==
    (Done /\ variant \in {"condition", "drug"} /\ eras # <<>>)
        => /\ Len(era_ids) = Len(eras)
           /\ \A n \in EraIndex : era_ids[n] = HashIdOf(n)

\* two condition eras with different keys were returned with the same id
NoCollisionDetectionWitness ==
    /\ Done
    /\ variant = "condition"
    /\ Len(eras) = 2
    /\ ConditionEraKey(1) # ConditionEraKey(2)
    /\ era_ids[1] = era_ids[2]

\* ------------------------------------------------------------------ C19
\* the step of table a was called and returned True before entry n of log
SucceededBefore(a, n) ==
    \E j \in 1..(n - 1) : log[j] = <<a, "True">>

\* the source table of an era table
SourceOf(table) ==
    IF table = "condition_era" THEN "condition_occurrence" ELSE "drug_exposure"

\* C19: in a run with --all the tables are handled one at a time in the
\* order of ALL_TABLES; the step of condition_era is called only after the
\* step of condition_occurrence returned True, the steps of drug_era and
\* dose_era only after the step of drug_exposure returned True.
EraAfterSource ==
    tables_to_process = ALL_TABLES =>
        /\ \A n \in 1..Len(log) : log[n][1] = ALL_TABLES[n]
        /\ \A n \in 1..Len(log) :
             log[n][1] \in {"condition_era", "drug_era", "dose_era"}
                 => SucceededBefore(SourceOf(log[n][1]), n)

\* a run with --all came to the end of the list, the three era steps called
EraAfterSourceWitness ==
    /\ tables_to_process = ALL_TABLES
    /\ pipeline_result = "True"
    /\ Len(log) = Len(ALL_TABLES)
    /\ log[Len(log)][1] = "dose_era"

\* ------------------------------------------------------------------ C14
\* the source query ran and selected no row
NothingSelected ==
    /\ query_path \in {"plain", "ingredient", "fallback"}
    /\ df = <<>>

\* C14: when the source query of an era step selects no row, transform()
\* returns an empty frame without raising and the step returns True without
\* calling the loader.
EmptySource ==
    NothingSelected =>
        /\ step = "returned"
        /\ success = "True"
        /\ Returned = <<>>
        /\ loader_calls = 0
        /\ errors = 0

\* a dose step over exposures none of which carries a dose has returned
EmptySourceWitness ==
    /\ NothingSelected
    /\ variant = "dose"
    /\ source # <<>>
    /\ step = "returned"
    /\ success = "True"

\* ------------------------------------------------------------------ C15
\* C15: when an era step returns True after the loader was called with a
\* frame that is not empty, the era table holds the rows of that frame and
\* no other row.
FullReplace ==
    (step = "returned" /\ success = "True" /\ loader_calls > 0)
        => era_table = Returned

\* ------------------------------------------------------------------ C17
\* the rows of the source table with a concept other than 0
Mapped == {m \in 1..Len(source) : source[m].concept_id # 0}

\* C17: in the condition era step no row with concept id 0 is in the frame
\* given to _build_eras, no era has condition_concept_id 0, and the
\* occurrence counts of the eras add up to the number of source rows whose
\* concept is not 0.
UnmappedExcluded ==
    variant = "condition" =>
        /\ \A n \in 1..Len(df) : df[n].concept_id # 0
        /\ \A n \in EraIndex : eras[n].concept_id # 0
        /\ (step = "build" /\ pc = "done")
              => SumCounts(EraIndex) = Cardinality(Mapped)

\* eras were built from a table that holds a row of concept 0 and a row of
\* another concept
UnmappedExcludedWitness ==
    /\ variant = "condition"
    /\ step = "build"
    /\ pc = "done"
    /\ eras # <<>>
    /\ Mapped # {}
    /\ Mapped # 1..Len(source)

\* ------------------------------------------------------------------ C18
\* exposure m stands in df under its stored drug concept
UnderRawConcept(m) ==
    \E n \in 1..Len(df) :
        df[n] = DrugRow(source[m], source[m].concept_id)

\* every row of df was merged into an era of its own concept
GroupedByConcept ==
    \A n \in 1..Len(df) :
        \E a \in EraIndex :
            /\ eras[a].concept_id = df[n].concept_id
            /\ \E j \in 1..Len(eras[a].members) : eras[a].members[j] = n

\* C18: in the drug era step an exposure whose drug concept has no
\* ingredient ancestor is read, and grouped, under its stored
\* drug_concept_id; if the ingredient query raised, every exposure is read
\* under its stored drug_concept_id; in both cases transform() goes on to
\* build the eras and the step records no error.
IngredientFallback ==
    (variant = "drug" /\ query_path \in {"ingredient", "fallback"}) =>
        /\ \A m \in Mapped :
             (query_path = "fallback" \/ Ancestors(source[m].concept_id) = {})
                 => UnderRawConcept(m)
        /\ query_path = "fallback" => Len(df) = Cardinality(Mapped)
        /\ errors = 0
        /\ step \in {"build", "returned"}
        /\ (step = "returned" /\ success = "False") => loader_calls = 1
        /\ pc = "done" => GroupedByConcept

\* the ingredient query ran, an exposure without ingredient ancestor was
\* read and its era built
IngredientFallbackWitness ==
    /\ variant = "drug"
    /\ query_path = "ingredient"
    /\ pc = "done"
    /\ \E m \in Mapped : Ancestors(source[m].concept_id) = {}
    /\ \E a \in EraIndex : eras[a].concept_id = 200

\* ------------------------------------------------------------------ C21
\* C21: every era starts on the smallest start date and ends on the largest
\* end date (null ends defaulted) of the records merged into it; the era
\* start is the start of the first merged record, and extending the era by
\* a record never lowers the era end reached before it.
EraBounds ==
    \A a \in EraIndex :
        LET mem == eras[a].members
            M == 1..Len(mem)
        IN /\ eras[a].era_start_date = Start(mem[1])
           /\ \A j \in M : eras[a].era_start_date <= Start(mem[j])
           /\ \E j \in M : eras[a].era_end_date = End(mem[j])
           /\ \A j \in M : End(mem[j]) <= eras[a].era_end_date
           /\ \A j \in 2..Len(mem) :
                 ExtendEnd(MaxEnd(mem, j - 1), End(mem[j]))
                     >= MaxEnd(mem, j - 1)

\* an era of two records in which the later record ends before the earlier
\* one: the era end is the end of the first record
EraBoundsWitness ==
    /\ Done
    /\ \E a \in EraIndex :
         LET mem == eras[a].members
         IN /\ Len(mem) = 2
            /\ Start(mem[1]) < Start(mem[2])
            /\ End(mem[2]) < End(mem[1])
            /\ eras[a].era_end_date = End(mem[1])

\* ------------------------------------------------------------------ C22
\* the step's answer to a source read that raised: it has returned False
\* with one entry in stats['errors'] and the loader was not called
SourceReadReported ==
    query_path = "raised" =>
        /\ step = "returned"
        /\ success = "False"
        /\ errors = 1
        /\ loader_calls = 0
        /\ pc = "none"

\* C22: when the source read of an era step raises (in the drug step: the
\* ingredient query and the fallback query both), the step records one
\* entry in stats['errors'], returns False and does not call the loader,
\* and the era table is empty.
SourceReadFailure ==
    /\ SourceReadReported
    /\ query_path = "raised" => era_table = <<>>

\* ------------------------------------------------------------------ C23
\* the names of a list that run_pipeline has a step for, in list order
RECURSIVE WithStep(_)
WithStep(names) ==
    IF names = <<>> THEN <<>>
    ELSE (IF Head(names) \in Handled THEN <<Head(names)>> ELSE <<>>)
         \o WithStep(Tail(names))

\* how many entries of the list the loop has taken up
TakenUp ==
    IF pipeline_result = "False" /\ position >= 1 THEN position
    ELSE IF position >= 1 THEN position - 1
    ELSE 0

\* C23: run_pipeline calls the steps of the listed tables in list order and
\* each once; a step that does not return True is the last one called, the
\* run returns False and no later table of the list is taken up; a name
\* without step is passed over and the run returns True if every step
\* called returned True.
StopAtFirstFailure ==
    /\ [n \in 1..Len(log) |-> log[n][1]]
         = WithStep(SubSeq(tables_to_process, 1, TakenUp))
    /\ \A n \in 1..Len(log) :
         log[n][2] # "True" =>
             /\ n = Len(log)
             /\ pipeline_result = "False"
             /\ tables_to_process[position] = log[n][1]
    /\ (pipeline_result = "False" /\ position >= 1) =>
         (log # <<>> /\ log[Len(log)][2] # "True")
    /\ pipeline_result = "True" =>
         /\ TakenUp = Len(tables_to_process)
         /\ \A n \in 1..Len(log) : log[n][2] = "True"

\* a name without step was passed over, the step of the next table
\* returned False, and a third table was never taken up
StopAtFirstFailureWitness ==
    /\ Len(tables_to_process) = 3
    /\ tables_to_process[1] \notin Handled
    /\ tables_to_process[3] \in Handled
    /\ log = <<<<tables_to_process[2], "False">>>>
    /\ pipeline_result = "False"
    /\ position = 2

\* ------------------------------------------------------------------ C24
\* the rows of a list of batches, one after the other
RECURSIVE Flatten(_)
Flatten(chunks) ==
    IF chunks = <<>> THEN <<>> ELSE Head(chunks) \o Flatten(Tail(chunks))

\* the loader was given a frame with rows and is past its entry test
Loading ==
    /\ load_pc \in {"loop", "count", "returned"}
    /\ ~load_df.is_none
    /\ load_df.rows # <<>>

\* the b of C24 for the frame and the batch_size argument of the call
ClaimedBatch ==
    IF 1 <= load_batch_size /\ load_batch_size <= Len(load_df.rows)
    THEN load_batch_size
    ELSE Len(load_df.rows)

\* ceil(T / b) for b >= 1: the least n with n * b >= T
ClaimedBatches ==
    CHOOSE n \in 0..Len(load_df.rows) :
        /\ n * ClaimedBatch >= Len(load_df.rows)
        /\ (n - 1) * ClaimedBatch < Len(load_df.rows)

\* C24: called on a frame of T >= 1 rows with any batch_size, the loader
\* inserts batch k as rows (k - 1) * b + 1 .. min(k * b, T), where
\* b = batch_size if 1 <= batch_size <= T and b = T otherwise; no batch is
\* empty, the table receives the batches in order, and when the loop is
\* over there were ceil(T / b) batches and together they are the rows of
\* the frame, each once and in frame order.
LoadBatching ==
    Loading =>
        LET T == Len(load_df.rows)
            b == ClaimedBatch
        IN /\ \A k \in 1..Len(load_chunks) :
                 /\ load_chunks[k] # <<>>
                 /\ load_chunks[k]
                      = SubSeq(load_df.rows, (k - 1) * b + 1, Min(k * b, T))
           /\ \E old \in {<<>>, EarlierRun(variant)} :
                 era_table = old \o Flatten(load_chunks)
           /\ Len(load_chunks) <= ClaimedBatches
           /\ (load_pc = "count" \/ load_result = "True") =>
                 /\ Len(load_chunks) = ClaimedBatches
                 /\ Flatten(load_chunks) = load_df.rows

\* three rows went in as a batch of two and a batch of one
LoadBatchingWitness ==
    /\ Loading
    /\ Len(load_df.rows) = 3
    /\ load_batch_size = 2
    /\ load_result = "True"
    /\ Len(load_chunks) = 2
    /\ Len(load_chunks[2]) = 1

\* ------------------------------------------------------------------ C25
\* the loader returned False out of the batch loop: to_sql raised on batch
\* Len(load_chunks) + 1
BatchRaised ==
    /\ Loading
    /\ load_result = "False"
    /\ Len(load_chunks) < load_num_batches

\* C25: when the insert of batch k raises, the loader returns False, no
\* later batch is inserted and the table holds what it held before the call
\* followed by the rows of batches 1..k-1; called with None or with an
\* empty frame the loader returns False and the table is as it was.
LoadFailure ==
    /\ BatchRaised =>
         /\ load_pc = "returned"
         /\ \E old \in {<<>>, EarlierRun(variant)} :
               era_table
                 = old \o SubSeq(load_df.rows, 1,
                                 Len(load_chunks) * load_batch)
    /\ (load_pc # "entry" /\ (load_df.is_none \/ load_df.rows = <<>>)) =>
         /\ load_pc = "returned"
         /\ load_result = "False"
         /\ load_chunks = <<>>
         /\ era_table \in {<<>>, EarlierRun(variant)}

\* the third batch of three raised: two rows were added to a table that
\* held a row already
LoadFailureWitness ==
    /\ BatchRaised
    /\ load_num_batches = 3
    /\ Len(load_chunks) = 2
    /\ Len(era_table) = 3

\* ------------------------------------------------------------------ C26
\* the columns of the rows of a returned frame other than the id
EraValues(frame) ==
    [n \in 1..Len(frame) |-> SubSeq(frame[n], 1, Len(frame[n]) - 1)]

\* C26: for records none of which ends before it starts (a null end date
\* allowed) and gap_days >= 0, the eras of a group, with their start, end,
\* occurrence count and gap_days, are the same for every order of the input
\* rows and every order the sort leaves records of equal start date in.
OrderIndependence ==
    (BothDone /\ ValidEnds /\ gap_days >= 0)
        => EraValues(Returned) = EraValues(first[1])

\* the second call got the two rows of the first in reverse, the later
\* record first, and merged them into one era with a gap between them
OrderIndependenceWitness ==
    /\ BothDone
    /\ ValidEnds
    /\ variant = "drug"
    /\ Len(df) = 2
    /\ df[1].start_date > df[2].start_date
    /\ Len(eras) = 1
    /\ eras[1].gap_days > 0
    /\ eras[1].members = <<2, 1>>
    /\ first[3] = <<<<1, 2>>>>

\* ------------------------------------------------------------------ C27
\* C27: in every drug era built from records none of which ends before it
\* starts, gap_days is at least 0, at most the length of the era in days,
\* and at most the threshold times the number of merged records after the
\* first.
DrugGapBounds ==
    (variant = "drug" /\ ValidEnds) =>
        \A a \in EraIndex :
            /\ 0 <= eras[a].gap_days
            /\ eras[a].gap_days
                 <= eras[a].era_end_date - eras[a].era_start_date
            /\ eras[a].gap_days
                 <= (eras[a].occurrence_count - 1) * gap_days

\* a drug era of two records a full threshold apart: gap_days reaches the
\* second bound and stays below the length of the era
DrugGapBoundsWitness ==
    /\ Done
    /\ variant = "drug"
    /\ ValidEnds
    /\ gap_days > 0
    /\ \E a \in EraIndex :
         /\ eras[a].occurrence_count = 2
         /\ eras[a].gap_days = gap_days
         /\ eras[a].gap_days < eras[a].era_end_date - eras[a].era_start_date

\* ------------------------------------------------------------------ C28
\* of the records at positions p and q of a group sorted by start date, the
\* later one starts at most gap_days days after the end of the earlier one
Linked(series, p, q) ==
    \/ p < q /\ Start(series[q]) - End(series[p]) <= gap_days
    \/ q < p /\ Start(series[p]) - End(series[q]) <= gap_days

\* the positions a chain of such links leads to from those of S
RECURSIVE Chained(_, _)
Chained(series, S) ==
    LET T == S \cup {q \in 1..Len(series) :
                        \E p \in S : Linked(series, p, q)}
    IN IF T = S THEN S ELSE Chained(series, T)

\* the records at the positions P of the series
Records(series, P) == {series[p] : p \in P}

\* every group has been built: the list of eras is complete, the ids are
\* not assigned yet
Built == pc = "group" /\ keys = <<>>

\* C28: each record merged into an era after its first starts at most
\* gap_days days after the largest end date of the records merged before
\* it; the records of an era are those a chain of gaps <= gap_days leads
\* to from any one of them, and a group has as many eras as it has such
\* chains.
NoBridge ==
    Built =>
        /\ \A a \in EraIndex :
             LET mem == eras[a].members
             IN \A j \in 2..Len(mem) : GapAt(mem, j) <= gap_days
        /\ \A k \in Groups :
             LET series == Series(k)
                 chains == {Records(series, Chained(series, {p})) :
                               p \in 1..Len(series)}
             IN /\ chains = {Range(eras[a].members) : a \in ErasOf(k)}
                /\ Cardinality(chains) = Cardinality(ErasOf(k))

\* an era of three records whose third is linked to the second only: the
\* first and the third are in one era by the chain
NoBridgeWitness ==
    /\ Built
    /\ gap_days >= 1
    /\ \E a \in EraIndex :
         LET mem == eras[a].members
         IN /\ Len(mem) = 3
            /\ ~Linked(mem, 1, 3)
            /\ Linked(mem, 1, 2)
            /\ Linked(mem, 2, 3)

\* ------------------------------------------------------------------ C29
\* no two rows of a condition or drug era frame have the same person,
\* concept and era start date, and two rows with the same era id have
\* different keys
KeysDistinct ==
    variant \in {"condition", "drug"} =>
        /\ \A a, b \in EraIndex :
             a # b => ConditionEraKey(a) # ConditionEraKey(b)
        /\ Done =>
             \A a, b \in EraIndex :
                (a # b /\ era_ids[a] = era_ids[b])
                    => DrugEraKey(a) # DrugEraKey(b)

\* C29 as stated: the above for every input.
NaturalKeyUnique == KeysDistinct

\* C29 amended: the above for inputs in which no record ends before it
\* starts (a null end date allowed).
NaturalKeyUniqueValidEnds == ValidEnds => KeysDistinct

\* two drug eras of one group, with different start dates, were given the
\* same id by the hash
NaturalKeyUniqueWitness ==
    /\ Done
    /\ ValidEnds
    /\ variant = "drug"
    /\ Len(eras) = 2
    /\ eras[1].era_start_date < eras[2].era_start_date
    /\ era_ids[1] = era_ids[2]

\* ------------------------------------------------------------------ C30
\* C30: when the drug era step has built its eras, their
\* drug_exposure_count values add up to the number of drug_exposure rows
\* whose drug_concept_id is not 0, whatever concept_ancestor holds.
ExposureCountedOnce ==
    (variant = "drug" /\ step = "build" /\ pc = "done")
        => SumCounts(EraIndex) = Cardinality(Mapped)
====
